---- MODULE Spec2Model ----
(***************************************************************************)
(* A model of artiq/language/core.py: the process-wide timing, syscall     *)
(* and watchdog backends with their setters, the sequential / parallel     *)
(* block context managers, the kernel / portable decorators, the           *)
(* ARTIQException type resolution and rendering, the int64 type and the    *)
(* conversion between seconds and machine units.                           *)
(***************************************************************************)
EXTENDS Integers, Sequences, FiniteSets, TLC

VARIABLES
    time_manager,      \* core.py global _time_manager
    syscall_manager,   \* core.py global _syscall_manager
    watchdog_factory,  \* core.py global _watchdog_factory
    tm_stack,          \* per recording time manager: the block kinds it holds
    tm_underflow,      \* per recording time manager: it got an exit() with no block
    delivered,         \* the calls the last step made on backends and executors, in order
    result,            \* op_result of the last primitive: a return or a raise
    frames,            \* the `with` blocks the interpreter has open, innermost last
    exc,               \* the exception propagating in the interpreter, or NoExc
    invoked,           \* the statement the interpreter executed last, with its arguments
    requested,         \* the backend most recently handed to each setter
    installs,          \* number of set_time_manager calls so far
    attrs,             \* the attributes of the object whose methods are called
    executed,          \* the functions the last call ran in the caller's context
    classes,           \* the exception classes defined so far, ARTIQException first
    record,            \* the exception record received from the device
    via,               \* the class the constructor was called on
    exn,               \* the exception object constructed last
    rendered,          \* the op_result of str(exn), once it was asked for
    acc,               \* the integer a chain of operations has produced so far
    operation,         \* the operation applied last, with its operands
    op_result            \* what the operation applied last returned or raised

timingVars == <<time_manager, syscall_manager, watchdog_factory, tm_stack,
                tm_underflow, delivered, result, frames, exc, invoked,
                requested, installs>>

dispatchVars == <<attrs, executed>>

excVars == <<classes, record, via, exn, rendered>>

intVars == <<acc, operation, op_result>>

vars == <<timingVars, dispatchVars, excVars, intVars>>

\* What the timing operations never touch.
notTiming == <<dispatchVars, excVars, intVars>>

-----------------------------------------------------------------------------
(* Values shared by the whole model.                                       *)

None == <<"None">>
NoExc == "NoExc"

Return(v) == [kind |-> "return", value |-> v]
Raise(e) == [kind |-> "raise", value |-> e]

\* A statement `f(...)` whose value is dropped: the callee's exception still
\* propagates, its return value does not.
Discard(r) == IF r.kind = "raise" THEN r ELSE Return(None)

Front(s) == SubSeq(s, 1, Len(s) - 1)

-----------------------------------------------------------------------------
(* Bounds.                                                                 *)

MaxDepth == 2      \* deepest nesting of `with` blocks explored
MaxInstalls == 2   \* set_time_manager calls explored in one run

-----------------------------------------------------------------------------
(* The environment: recording backends a test installs.  A recording       *)
(* backend accepts every call, keeps the block kinds it was asked to       *)
(* enter, and answers with a value that identifies the backend and the     *)
(* call.                                                                   *)

Backends == {"A", "B"}
Dummy == "dummy"
BlockKinds == {"sequential", "parallel"}
Durations == {0, 1}
SyscallArgs == {<<"rtio_get_counter">>, <<"ttl_set_o", "on">>}
Timeouts == {1, 2}

BackendReply(b, method, args) == Return(<<b, method, args>>)

BackendStack(b, method, stack) ==
    CASE method = "enter_sequential" -> Append(stack, "sequential")
      [] method = "enter_parallel"   -> Append(stack, "parallel")
      [] method = "exit"             -> IF stack = <<>> THEN stack ELSE Front(stack)
      [] OTHER                       -> stack

-----------------------------------------------------------------------------
(* The default backends.                                                   *)

\* A default backend that does nothing instead of raising.
DummyTimeManager_silent(args) == Return(None)

DummyTimeManager_not_implemented(args) == Raise("NotImplementedError")

DummySyscallManager_do(args) == Raise("NotImplementedError")

\* _DummyWatchdog(timeout): an object whose __enter__ and __exit__ do nothing.
DummyWatchdog(timeout) == Return(<<"_DummyWatchdog">>)

-----------------------------------------------------------------------------
(* A call through one of the three globals.  The global is read when the   *)
(* call is made.                                                           *)

Call(kind, to, method, args) ==
    [kind |-> kind, to |-> to, method |-> method, args |-> args]

\* _time_manager.<method>(*args): what the callee answers.
TimeManagerReply(method, args) ==
    IF time_manager = Dummy
    THEN DummyTimeManager_not_implemented(args)
    ELSE BackendReply(time_manager, method, args)

\* _time_manager.<method>(*args): what the call does to the callee.
TimeManagerCall(method, args) ==
    /\ delivered' = <<Call("time", time_manager, method, args)>>
    /\ IF time_manager = Dummy
       THEN UNCHANGED <<tm_stack, tm_underflow>>
       ELSE /\ tm_stack' = [tm_stack EXCEPT ![time_manager] =
                                BackendStack(time_manager, method, @)]
            /\ tm_underflow' = [tm_underflow EXCEPT ![time_manager] =
                                    @ \/ (method = "exit" /\ tm_stack[time_manager] = <<>>)]

SyscallManagerReply(args) ==
    IF syscall_manager = Dummy
    THEN DummySyscallManager_do(args)
    ELSE BackendReply(syscall_manager, "do", args)

SyscallManagerCall(args) ==
    /\ delivered' = <<Call("syscall", syscall_manager, "do", args)>>
    /\ UNCHANGED <<tm_stack, tm_underflow>>

WatchdogFactoryReply(timeout) ==
    IF watchdog_factory = Dummy
    THEN DummyWatchdog(timeout)
    ELSE BackendReply(watchdog_factory, "__call__", <<timeout>>)

WatchdogFactoryCall(timeout) ==
    /\ delivered' = <<Call("watchdog", watchdog_factory, "__call__", <<timeout>>)>>
    /\ UNCHANGED <<tm_stack, tm_underflow>>

-----------------------------------------------------------------------------
(* core.py: the setters.                                                   *)

\* A setter that keeps a backend that is already installed.
set_time_manager_keep_first(tm) ==
    time_manager' = IF time_manager = Dummy THEN tm ELSE time_manager

set_time_manager(tm) == time_manager' = tm

set_syscall_manager(sm) == syscall_manager' = sm

set_watchdog_factory(f) == watchdog_factory' = f

-----------------------------------------------------------------------------
(* core.py: the block context managers and the primitives.  `type` is the  *)
(* exception the `with` statement hands to __exit__, NoExc when the body   *)
(* completed.  Every __exit__ returns None, so the exception is never      *)
(* suppressed.                                                             *)

Sequential__enter__ ==
    /\ TimeManagerCall("enter_sequential", <<>>)
    /\ result' = Discard(TimeManagerReply("enter_sequential", <<>>))

Sequential__exit__(type) ==
    /\ TimeManagerCall("exit", <<>>)
    /\ result' = Discard(TimeManagerReply("exit", <<>>))

Parallel__enter__ ==
    /\ TimeManagerCall("enter_parallel", <<>>)
    /\ result' = Discard(TimeManagerReply("enter_parallel", <<>>))

\* An __exit__ that leaves the block only when the body completed.
Parallel__exit__on_success(type) ==
    IF type = NoExc
    THEN /\ TimeManagerCall("exit", <<>>)
         /\ result' = Discard(TimeManagerReply("exit", <<>>))
    ELSE /\ delivered' = <<>>
         /\ result' = Return(None)
         /\ UNCHANGED <<tm_stack, tm_underflow>>

Parallel__exit__(type) ==
    /\ TimeManagerCall("exit", <<>>)
    /\ result' = Discard(TimeManagerReply("exit", <<>>))

delay_mu(duration) ==
    /\ TimeManagerCall("take_time_mu", <<duration>>)
    /\ result' = Discard(TimeManagerReply("take_time_mu", <<duration>>))

now_mu ==
    /\ TimeManagerCall("get_time_mu", <<>>)
    /\ result' = TimeManagerReply("get_time_mu", <<>>)

at_mu(time) ==
    /\ TimeManagerCall("set_time_mu", <<time>>)
    /\ result' = Discard(TimeManagerReply("set_time_mu", <<time>>))

delay(duration) ==
    /\ TimeManagerCall("take_time", <<duration>>)
    /\ result' = Discard(TimeManagerReply("take_time", <<duration>>))

syscall(args) ==
    /\ SyscallManagerCall(args)
    /\ result' = SyscallManagerReply(args)

watchdog(timeout) ==
    /\ WatchdogFactoryCall(timeout)
    /\ result' = WatchdogFactoryReply(timeout)

\* The guard a recording factory made: it records the call and returns None.
GuardCall(b, method) ==
    /\ delivered' = <<Call("watchdog", b, method, <<>>)>>
    /\ result' = Return(None)
    /\ UNCHANGED <<tm_stack, tm_underflow>>

DummyWatchdog__enter__ ==
    /\ delivered' = <<>>
    /\ result' = Return(None)
    /\ UNCHANGED <<tm_stack, tm_underflow>>

\* An __exit__ that enforces the timeout when the scope ends.
DummyWatchdog__exit__enforcing(type) ==
    /\ delivered' = <<>>
    /\ result' = Raise("WatchdogExpired")
    /\ UNCHANGED <<tm_stack, tm_underflow>>

DummyWatchdog__exit__(type) ==
    /\ delivered' = <<>>
    /\ result' = Return(None)
    /\ UNCHANGED <<tm_stack, tm_underflow>>

-----------------------------------------------------------------------------
(* The interpreter running a test program: one action per statement.       *)
(* A statement runs only while no exception is propagating.  A `with`      *)
(* statement calls __enter__ and opens the block only if that returns;     *)
(* it calls __exit__ when the body completes and when an exception leaves  *)
(* the body, and the exception goes on unless __exit__ returns true.       *)

Statement(prim, args) == [prim |-> prim, args |-> args]

Raised == IF result'.kind = "raise" THEN result'.value ELSE exc

SetTimeManager ==
    \E b \in Backends :
        /\ exc = NoExc
        /\ installs < MaxInstalls
        /\ set_time_manager(b)
        /\ invoked' = Statement("set_time_manager", <<b>>)
        /\ requested' = [requested EXCEPT !.time = b]
        /\ installs' = installs + 1
        /\ delivered' = <<>>
        /\ result' = Return(None)
        /\ UNCHANGED <<syscall_manager, watchdog_factory, tm_stack, tm_underflow,
                       frames, exc>>
        /\ UNCHANGED notTiming

SetSyscallManager ==
    \E b \in Backends :
        /\ exc = NoExc
        /\ set_syscall_manager(b)
        /\ invoked' = Statement("set_syscall_manager", <<b>>)
        /\ requested' = [requested EXCEPT !.syscall = b]
        /\ delivered' = <<>>
        /\ result' = Return(None)
        /\ UNCHANGED <<time_manager, watchdog_factory, tm_stack, tm_underflow,
                       frames, exc, installs>>
        /\ UNCHANGED notTiming

SetWatchdogFactory ==
    \E b \in Backends :
        /\ exc = NoExc
        /\ set_watchdog_factory(b)
        /\ invoked' = Statement("set_watchdog_factory", <<b>>)
        /\ requested' = [requested EXCEPT !.watchdog = b]
        /\ delivered' = <<>>
        /\ result' = Return(None)
        /\ UNCHANGED <<time_manager, syscall_manager, tm_stack, tm_underflow,
                       frames, exc, installs>>
        /\ UNCHANGED notTiming

EnterBlock ==
    \E kind \in BlockKinds :
        /\ exc = NoExc
        /\ Len(frames) < MaxDepth
        /\ IF kind = "sequential" THEN Sequential__enter__ ELSE Parallel__enter__
        /\ invoked' = Statement("enter_" \o kind, <<>>)
        /\ exc' = Raised
        /\ frames' = IF result'.kind = "raise"
                      THEN frames
                      ELSE Append(frames, [kind |-> kind, mgr |-> time_manager])
        /\ UNCHANGED <<time_manager, syscall_manager, watchdog_factory,
                       requested, installs>>
        /\ UNCHANGED notTiming

LeaveBlock ==
    /\ frames # <<>>
    /\ LET top == frames[Len(frames)] IN
       CASE top.kind = "sequential" -> Sequential__exit__(exc)
         [] top.kind = "parallel" -> Parallel__exit__(exc)
         [] top.kind = "watchdog" ->
                IF top.mgr = "_DummyWatchdog"
                THEN DummyWatchdog__exit__(exc)
                ELSE GuardCall(top.mgr, "__exit__")
    /\ exc' = Raised
    /\ frames' = Front(frames)
    /\ UNCHANGED <<time_manager, syscall_manager, watchdog_factory,
                   requested, installs>>
    /\ UNCHANGED notTiming

\* The body of the innermost block completes.
ExitBlockNormal ==
    /\ exc = NoExc
    /\ LeaveBlock
    /\ invoked' = Statement("exit_normal", <<>>)

\* An exception leaves the body of the innermost block.
ExitBlockRaise ==
    /\ exc # NoExc
    /\ LeaveBlock
    /\ invoked' = Statement("exit_raise", <<>>)

\* A statement of a block body, other than a primitive, raises.
BodyRaise ==
    /\ exc = NoExc
    /\ frames # <<>>
    /\ exc' = "BodyError"
    /\ invoked' = Statement("raise", <<>>)
    /\ delivered' = <<>>
    /\ result' = Raise("BodyError")
    /\ UNCHANGED <<time_manager, syscall_manager, watchdog_factory, tm_stack,
                   tm_underflow, frames, requested, installs>>
    /\ UNCHANGED notTiming

\* An except clause at the current nesting level handles the exception.
Catch ==
    /\ exc # NoExc
    /\ exc' = NoExc
    /\ invoked' = Statement("except", <<>>)
    /\ delivered' = <<>>
    /\ UNCHANGED <<time_manager, syscall_manager, watchdog_factory, tm_stack,
                   tm_underflow, frames, result, requested, installs>>
    /\ UNCHANGED notTiming

Primitive(call, prim, args) ==
    /\ exc = NoExc
    /\ call
    /\ invoked' = Statement(prim, args)
    /\ exc' = Raised
    /\ UNCHANGED <<time_manager, syscall_manager, watchdog_factory, frames,
                   requested, installs>>
    /\ UNCHANGED notTiming

DelayMu == \E d \in Durations : Primitive(delay_mu(d), "delay_mu", <<d>>)

NowMu == Primitive(now_mu, "now_mu", <<>>)

AtMu == \E t \in Durations : Primitive(at_mu(t), "at_mu", <<t>>)

Delay == \E d \in Durations : Primitive(delay(d), "delay", <<d>>)

Syscall == \E a \in SyscallArgs : Primitive(syscall(a), "syscall", a)

Watchdog == \E t \in Timeouts : Primitive(watchdog(t), "watchdog", <<t>>)

\* `with g:` for the guard g that watchdog(timeout) has just returned.
EnterGuard ==
    /\ exc = NoExc
    /\ Len(frames) < MaxDepth
    /\ invoked.prim = "watchdog"
    /\ LET maker == result.value[1] IN
       /\ IF maker = "_DummyWatchdog"
          THEN DummyWatchdog__enter__
          ELSE GuardCall(maker, "__enter__")
       /\ frames' = Append(frames, [kind |-> "watchdog", mgr |-> maker])
    /\ invoked' = Statement("enter_watchdog", <<>>)
    /\ exc' = Raised
    /\ UNCHANGED <<time_manager, syscall_manager, watchdog_factory,
                   requested, installs>>
    /\ UNCHANGED notTiming

TimingInit ==
    /\ time_manager = Dummy
    /\ syscall_manager = Dummy
    /\ watchdog_factory = Dummy
    /\ tm_stack = [b \in Backends |-> <<>>]
    /\ tm_underflow = [b \in Backends |-> FALSE]
    /\ delivered = <<>>
    /\ result = Return(None)
    /\ frames = <<>>
    /\ exc = NoExc
    /\ invoked = Statement("start", <<>>)
    /\ requested = [time |-> Dummy, syscall |-> Dummy, watchdog |-> Dummy]
    /\ installs = 0

TimingNext ==
    \/ SetTimeManager
    \/ SetSyscallManager
    \/ SetWatchdogFactory
    \/ EnterBlock
    \/ ExitBlockNormal
    \/ ExitBlockRaise
    \/ BodyRaise
    \/ Catch
    \/ DelayMu
    \/ NowMu
    \/ AtMu
    \/ Delay
    \/ Syscall
    \/ Watchdog

\* The integer side before any operation.
IntIdle ==
    /\ acc = [type |-> "int", val |-> 0]
    /\ operation = [form |-> "none"]
    /\ op_result = Return([type |-> "int", val |-> 0])

\* The exception side before any class is defined or exception received.
Root == 1                       \* the class ARTIQException
NoneCls == 0                    \* find_subclass returning None
NoExn == [type |-> NoneCls]
Pending == [kind |-> "pending", value |-> <<>>]
RootClass == [name |-> "ARTIQException", parent |-> NoneCls]
NoRecord == [name |-> "none"]

ExcIdle ==
    /\ classes = <<RootClass>>
    /\ record = NoRecord
    /\ via = NoneCls
    /\ exn = NoExn
    /\ rendered = Pending

DispatchIdle ==
    /\ attrs = [n \in {"core"} |-> "E1"]
    /\ executed = <<>>


InitTiming == TimingInit /\ DispatchIdle /\ ExcIdle /\ IntIdle

SpecTiming == InitTiming /\ [][TimingNext]_vars

\* Programs that guard scopes with watchdogs, inside and around timing
\* blocks.
WatchdogNext ==
    \/ SetTimeManager
    \/ SetWatchdogFactory
    \/ EnterBlock
    \/ Watchdog
    \/ EnterGuard
    \/ ExitBlockNormal
    \/ ExitBlockRaise
    \/ BodyRaise
    \/ Catch

SpecWatchdog == InitTiming /\ [][WatchdogNext]_vars

-----------------------------------------------------------------------------
(* core.py: the kernel and portable decorators.                            *)
(*                                                                         *)
(* The environment: an object `self` whose attributes hold an executor     *)
(* (a recording object with a run method), a value without a run method,   *)
(* or are absent; and two user functions, one that returns at once and     *)
(* one whose body calls a kernel method of the same object.                *)

Executors == {"E1", "E2"}
NoRunValue == "no_run"                \* an attribute value that has no run method
AttrNames == {"core", "comm", ""}
AttrValues == Executors \cup {NoRunValue}
Functions == {"leaf", "nested"}
NestedBinding == "comm"               \* the binding of the kernel `nested` calls
PosArgs == {<<>>, <<"x">>}
KwArgs == {<<>>, <<"n", "v">>}
Self == "self"

\* The argument handed to @kernel: a string, or (used bare) the function.
StrArg(name) == [type |-> "str", value |-> name]
FunctionArg(f) == [type |-> "function", value |-> f]

\* The result of a call: what ran in the caller's context, which executors
\* were called, and the op_result.
Effect(ran, calls, reply) == [ran |-> ran, calls |-> calls, outcome |-> reply]

getattr(obj, name) ==
    IF name \in DOMAIN obj THEN Return(obj[name]) ELSE Raise("AttributeError")

RunArgs(function, k_args, k_kwargs) == <<function, <<Self>> \o k_args, k_kwargs>>

\* A dispatcher that runs the function on the host when the executor is missing.
run_on_core_fallback(arg, function, k_args, k_kwargs) ==
    LET target == getattr(attrs, arg) IN
    IF target.kind = "raise" \/ target.value \notin Executors
    THEN Effect(<<function>>, <<>>, Return(<<function, k_args, k_kwargs>>))
    ELSE Effect(<<>>,
                <<Call("executor", target.value, "run",
                      RunArgs(function, k_args, k_kwargs))>>,
                BackendReply(target.value, "run", RunArgs(function, k_args, k_kwargs)))

\* A dispatcher that forgets to pass self.
run_on_core_without_self(arg, function, k_args, k_kwargs) ==
    LET target == getattr(attrs, arg) IN
    IF target.kind = "raise"
    THEN Effect(<<>>, <<>>, target)
    ELSE IF target.value \notin Executors
    THEN Effect(<<>>, <<>>, Raise("AttributeError"))
    ELSE Effect(<<>>,
                <<Call("executor", target.value, "run", <<function, k_args, k_kwargs>>)>>,
                BackendReply(target.value, "run", <<function, k_args, k_kwargs>>))

\* return getattr(self, arg).run(function, ((self,) + k_args), k_kwargs)
run_on_core(arg, function, k_args, k_kwargs) ==
    LET target == getattr(attrs, arg) IN
    IF target.kind = "raise"
    THEN Effect(<<>>, <<>>, target)
    ELSE IF target.value \notin Executors
    THEN Effect(<<>>, <<>>, Raise("AttributeError"))
    ELSE Effect(<<>>,
                <<Call("executor", target.value, "run",
                      RunArgs(function, k_args, k_kwargs))>>,
                BackendReply(target.value, "run", RunArgs(function, k_args, k_kwargs)))

ARTIQEmbeddedInfo(core_name, function) ==
    [core_name |-> core_name, function |-> function]

inner_decorator(arg, function) ==
    [wrapper |-> "run_on_core", artiq_embedded |-> ARTIQEmbeddedInfo(arg, function)]

\* @kernel(arg) applied to `function`; used bare, arg is the function itself.
kernel(arg, function) ==
    IF arg.type = "str"
    THEN inner_decorator(arg.value, function)
    ELSE inner_decorator("core", arg.value)

portable(function) ==
    [wrapper |-> "none", artiq_embedded |-> ARTIQEmbeddedInfo("", function)]

\* The body of a user function, run in the caller's context.
Body(function, k_args, k_kwargs) ==
    IF function = "leaf"
    THEN Effect(<<function>>, <<>>, Return(<<function, k_args, k_kwargs>>))
    ELSE LET inner == run_on_core(NestedBinding, "leaf", k_args, k_kwargs) IN
         Effect(<<function>> \o inner.ran, inner.calls, inner.outcome)

\* decorated(self, *k_args, **k_kwargs)
Invoke(decorated, k_args, k_kwargs) ==
    IF decorated.wrapper = "run_on_core"
    THEN run_on_core(decorated.artiq_embedded.core_name,
                     decorated.artiq_embedded.function, k_args, k_kwargs)
    ELSE Body(decorated.artiq_embedded.function, k_args, k_kwargs)

KernelArgs == {StrArg(n) : n \in AttrNames} \cup {FunctionArg(f) : f \in Functions}

\* What the timing-side variables hold while the dispatcher is exercised.
DispatchFrame ==
    UNCHANGED <<time_manager, syscall_manager, watchdog_factory, tm_stack,
                tm_underflow, frames, exc, requested, installs, excVars, intVars>>

Apply(decorated, prim, how, f, k_args, k_kwargs) ==
    LET e == Invoke(decorated, k_args, k_kwargs) IN
    /\ executed' = e.ran
    /\ delivered' = e.calls
    /\ result' = e.outcome
    /\ invoked' = Statement(prim, <<how, f, k_args, k_kwargs, decorated.artiq_embedded>>)
    /\ UNCHANGED attrs
    /\ DispatchFrame

\* A call of a method decorated with @kernel or @kernel("name").
CallKernel ==
    \E a \in KernelArgs, f \in Functions, k_args \in PosArgs, k_kwargs \in KwArgs :
        /\ a.type = "function" => a.value = f
        /\ Apply(kernel(a, f), "call_kernel", a, f, k_args, k_kwargs)

\* A call of a function decorated with @portable.
CallPortable ==
    \E f \in Functions, k_args \in PosArgs, k_kwargs \in KwArgs :
        Apply(portable(f), "call_portable", FunctionArg(f), f, k_args, k_kwargs)

\* self.<name> = value
SetAttr ==
    \E n \in AttrNames, v \in AttrValues :
        /\ attrs' = [m \in DOMAIN attrs \cup {n} |-> IF m = n THEN v ELSE attrs[m]]
        /\ invoked' = Statement("setattr", <<n, v>>)
        /\ delivered' = <<>>
        /\ result' = Return(None)
        /\ UNCHANGED executed
        /\ DispatchFrame

\* del self.<name>
DelAttr ==
    \E n \in DOMAIN attrs :
        /\ attrs' = [m \in DOMAIN attrs \ {n} |-> attrs[m]]
        /\ invoked' = Statement("delattr", <<n>>)
        /\ delivered' = <<>>
        /\ result' = Return(None)
        /\ UNCHANGED executed
        /\ DispatchFrame

DispatchNext ==
    \/ CallKernel
    \/ CallPortable
    \/ SetAttr
    \/ DelAttr

InitDispatch == TimingInit /\ DispatchIdle /\ ExcIdle /\ IntIdle

SpecDispatch == InitDispatch /\ [][DispatchNext]_vars

-----------------------------------------------------------------------------
(* core.py: ARTIQException.                                                *)

MaxClasses == 3    \* exception classes defined, ARTIQException included
MaxLineLen == 2    \* longest source line (without its newline) in the file
MaxColumn == 2     \* largest column a record carries

ClassNames == {"ARTIQException", "RTIOUnderflow", "RTIOSequenceError"}
RecordNames == ClassNames \cup {"UnknownFault"}
Messages == {<<"underflow at ", "{0}">>, <<"channel ", "{0}", " slack ", "{1}">>}
ParamLists == {<<7>>, <<7, -12>>}
KernelFile == "kernel.py"
Filenames == {KernelFile, "gone.py"}

\* cls.__subclasses__(): the direct subclasses, in the order of definition.
subclasses(cls) ==
    SelectSeq([i \in 1..Len(classes) |-> i], LAMBDA i : classes[i].parent = cls)

RECURSIVE find_subclass(_, _)
RECURSIVE find_in_subclasses(_, _)

\* A lookup that looks at the class and its direct subclasses only.
find_subclass_shallow(cls, name) ==
    IF classes[cls].name = name
    THEN cls
    ELSE LET hits == SelectSeq(subclasses(cls), LAMBDA i : classes[i].name = name)
         IN  IF hits = <<>> THEN NoneCls ELSE Head(hits)

find_subclass(cls, name) ==
    IF classes[cls].name = name
    THEN cls
    ELSE find_in_subclasses(subclasses(cls), name)

\* for subclass in cls.__subclasses__(): return the first result that is not None
find_in_subclasses(subs, name) ==
    IF subs = <<>>
    THEN NoneCls
    ELSE LET found == find_subclass(Head(subs), name)
         IN  IF found # NoneCls THEN found ELSE find_in_subclasses(Tail(subs), name)

Record(name, message, params, filename, line, column, function) ==
    [name |-> name, message |-> message, params |-> params, filename |-> filename,
     line |-> line, column |-> column, function |-> function]

ARTIQException__init__(type, r) ==
    [type |-> type, name |-> r.name, message |-> r.message, params |-> r.params,
     filename |-> r.filename, line |-> r.line, column |-> r.column,
     function |-> r.function]

ARTIQException__new__(cls, r) ==
    LET found == find_subclass(cls, r.name)
        more_specific_cls == IF found = NoneCls THEN cls ELSE found
    IN  ARTIQException__init__(more_specific_cls, r)

-----------------------------------------------------------------------------
(* Text.  A character is a one-character string, a source line a sequence  *)
(* of characters, a rendered line a sequence of pieces of text.            *)

Whitespace == {" ", "\n"}

RECURSIVE Spaces(_)
\* " " * n: empty when n <= 0
Spaces(n) == IF n <= 0 THEN <<>> ELSE <<" ">> \o Spaces(n - 1)

Digits == <<"0", "1", "2", "3", "4", "5", "6", "7", "8", "9">>

RECURSIVE NatToStr(_)
NatToStr(n) == IF n < 10 THEN Digits[n + 1] ELSE NatToStr(n \div 10) \o Digits[(n % 10) + 1]

\* str(n) for an integer
IntToStr(n) == IF n < 0 THEN "-" \o NatToStr(-n) ELSE NatToStr(n)

RECURSIVE Bodies(_)
\* Every line body of length n over the characters " " and "x", in a fixed order.
Bodies(n) ==
    IF n = 0
    THEN << <<>> >>
    ELSE LET shorter == Bodies(n - 1)
             ext(c) == [i \in 1..Len(shorter) |-> shorter[i] \o <<c>>]
         IN  ext(" ") \o ext("x")

RECURSIVE BodiesUpTo(_)
BodiesUpTo(n) == IF n = 0 THEN Bodies(0) ELSE BodiesUpTo(n - 1) \o Bodies(n)

\* The source files on disk: kernel.py holds one line for every body; every
\* line a file yields ends with a newline.
SourceFiles ==
    LET bodies == BodiesUpTo(MaxLineLen) IN
    [f \in {KernelFile} |-> [i \in 1..Len(bodies) |-> bodies[i] \o <<"\n">>]]

\* linecache.getline(filename, lineno): the line, or '' when there is none.
linecache_getline(filename, lineno) ==
    IF filename \in DOMAIN SourceFiles /\ 1 <= lineno /\ lineno <= Len(SourceFiles[filename])
    THEN SourceFiles[filename][lineno]
    ELSE <<>>

RECURSIVE LeadingWhitespace(_)
\* The number of whitespace characters a text starts with.
LeadingWhitespace(text) ==
    IF text = <<>> \/ Head(text) \notin Whitespace
    THEN 0
    ELSE 1 + LeadingWhitespace(Tail(text))

\* re.search(r"^\s+", line): the end of the match, or no match.
re_search_leading_space(line) ==
    IF LeadingWhitespace(line) = 0
    THEN Raise("AttributeError")          \* None has no attribute 'end'
    ELSE Return(LeadingWhitespace(line))

RECURSIVE Reverse(_)
Reverse(text) == IF text = <<>> THEN <<>> ELSE Reverse(Tail(text)) \o <<Head(text)>>

lstrip(text) == SubSeq(text, LeadingWhitespace(text) + 1, Len(text))

\* line.strip()
strip(text) == Reverse(lstrip(Reverse(lstrip(text))))

IsField(piece) == piece \in {"{0}", "{1}"}

FieldIndex(piece) == IF piece = "{0}" THEN 0 ELSE 1

\* message.format(*params)
format(message, params) ==
    IF \E i \in 1..Len(message) : IsField(message[i]) /\ FieldIndex(message[i]) >= Len(params)
    THEN Raise("IndexError")
    ELSE Return([i \in 1..Len(message) |->
                    IF IsField(message[i])
                    THEN IntToStr(params[FieldIndex(message[i]) + 1])
                    ELSE message[i]])

TracebackHeader == <<"Core Device Traceback (most recent call last):">>

FrameLine(self) ==
    <<"  File \"", self.filename, "\", line ", IntToStr(self.line),
      ", column ", IntToStr(self.column + 1), ", in ", self.function>>

\* The first line: the prefix is added when the type's name is not the record's.
FirstLine(self, text) ==
    IF classes[self.type].name = self.name
    THEN text
    ELSE <<"(", self.name, ") ">> \o text

\* A rendering that always adds the prefix.
ARTIQException__str__always_prefixed(self) ==
    LET text == format(self.message, self.params)
        line == linecache_getline(self.filename, self.line)
        match == re_search_leading_space(line)
    IN  IF text.kind = "raise" THEN text
        ELSE IF match.kind = "raise" THEN match
        ELSE Return(<< <<"(", self.name, ") ">> \o text.value,
                       TracebackHeader,
                       FrameLine(self),
                       <<"    ">> \o (IF line # <<>> THEN strip(line) ELSE <<"<unknown>">>),
                       <<"    ">> \o Spaces(self.column - match.value) \o <<"^">> >>)

ARTIQException__str__(self) ==
    LET text == format(self.message, self.params)
        line == linecache_getline(self.filename, self.line)
        match == re_search_leading_space(line)
    IN  IF text.kind = "raise" THEN text
        ELSE IF match.kind = "raise" THEN match
        ELSE Return(<< FirstLine(self, text.value),
                       TracebackHeader,
                       FrameLine(self),
                       <<"    ">> \o (IF line # <<>> THEN strip(line) ELSE <<"<unknown>">>),
                       <<"    ">> \o Spaces(self.column - match.value) \o <<"^">> >>)

-----------------------------------------------------------------------------
(* The exception operations.                                               *)

\* class <name>(<parent>): pass
DefineSubclass ==
    \E parent \in 1..Len(classes), name \in ClassNames :
        /\ Len(classes) < MaxClasses
        /\ classes' = Append(classes, [name |-> name, parent |-> parent])
        /\ UNCHANGED <<record, via, exn, rendered, timingVars, dispatchVars, intVars>>

\* A record arrives whose place in the source is held fixed, and
\* cls(name, message, params, filename, line, column, function) is built.
Resolve ==
    \E cls \in 1..Len(classes), name \in RecordNames :
        /\ record' = Record(name, <<"underflow at ", "{0}">>, <<7>>, KernelFile, 1, 0, "run")
        /\ via' = cls
        /\ exn' = ARTIQException__new__(cls, record')
        /\ rendered' = Pending
        /\ UNCHANGED <<classes, timingVars, dispatchVars, intVars>>

\* cls(name, message, params, filename, line, column, function) for the
\* record received.
Construct ==
    \E cls \in 1..Len(classes) :
        /\ record # NoRecord
        /\ via' = cls
        /\ exn' = ARTIQException__new__(cls, record)
        /\ rendered' = Pending
        /\ UNCHANGED <<classes, record, timingVars, dispatchVars, intVars>>

\* str(exn)
Render ==
    /\ exn # NoExn
    /\ rendered' = ARTIQException__str__(exn)
    /\ UNCHANGED <<classes, record, via, exn, timingVars, dispatchVars, intVars>>

\* Every record the device may send.
Records ==
    {Record(name, message, params, filename, line, column, "run") :
        name \in RecordNames, message \in Messages, params \in ParamLists,
        filename \in Filenames, line \in 0..(Len(SourceFiles[KernelFile]) + 1),
        column \in 0..MaxColumn}

\* A program that has defined RTIOUnderflow and RTIOSequenceError and has
\* received a record.
ExcReceived ==
    /\ classes = <<RootClass, [name |-> "RTIOUnderflow", parent |-> Root],
                   [name |-> "RTIOSequenceError", parent |-> Root]>>
    /\ record \in Records
    /\ via = NoneCls
    /\ exn = NoExn
    /\ rendered = Pending

ResolveNext ==
    \/ DefineSubclass
    \/ Resolve

RenderNext ==
    \/ Construct
    \/ Render

InitResolve == TimingInit /\ DispatchIdle /\ ExcIdle /\ IntIdle

SpecResolve == InitResolve /\ [][ResolveNext]_vars

InitRender == TimingInit /\ DispatchIdle /\ ExcReceived /\ IntIdle

SpecRender == InitRender /\ [][RenderNext]_vars

-----------------------------------------------------------------------------
(* core.py: int64.  A value carries its class; the operators follow the    *)
(* interpreter's rules: a binary operator asks the right operand's         *)
(* reflected method first when the right operand's class is a subclass of  *)
(* the left one's that overrides it, and an in-place operator uses the     *)
(* class's in-place method when it has one and the binary operator         *)
(* otherwise.                                                              *)

MaxInt == 3        \* integer values are kept within -MaxInt..MaxInt

IntValues == (0 - MaxInt)..MaxInt
PlainInt(v) == [type |-> "int", val |-> v]
Float == [type |-> "float", val |-> 0]      \* the value of a float is not followed
Operands == {[type |-> t, val |-> v] : t \in {"int", "int64"}, v \in IntValues}

UnaryOps == {"neg", "pos", "abs", "invert", "round"}
BinaryOps == {"add", "sub", "mul", "pow", "lshift", "rshift", "and", "xor", "or",
              "floordiv", "mod", "truediv"}
IntDict == UnaryOps \cup BinaryOps \cup {"r" \o op : op \in BinaryOps}

\* The first loop without its reflected addition.
PatchedOps_without_radd ==
    {"neg", "pos", "abs", "invert", "round",
     "add", "sub", "rsub", "mul", "rmul", "pow", "rpow",
     "lshift", "rlshift", "rshift", "rrshift",
     "and", "rand", "xor", "rxor", "or", "ror",
     "floordiv", "rfloordiv", "mod", "rmod"}

PatchedOps ==
    {"neg", "pos", "abs", "invert", "round",
     "add", "radd", "sub", "rsub", "mul", "rmul", "pow", "rpow",
     "lshift", "rlshift", "rshift", "rrshift",
     "and", "rand", "xor", "rxor", "or", "ror",
     "floordiv", "rfloordiv", "mod", "rmod"}

InPlaceOps == {"add", "sub", "mul", "floordiv", "mod",
               "pow", "lshift", "rshift", "lshift",
               "and", "xor", "or"}

\* The methods the class int64 defines itself.
Int64Dict == PatchedOps \cup {"i" \o op : op \in InPlaceOps}

RECURSIVE Power(_, _)
Power(a, n) == IF n = 0 THEN 1 ELSE a * Power(a, n - 1)

\* Floor division, the divisor not zero.
FloorDiv(a, b) == IF b > 0 THEN a \div b ELSE (0 - a) \div (0 - b)

RECURSIVE Bitwise(_, _, _)
\* and, or, xor on two's complement integers of any length.
Bitwise(op, a, b) ==
    LET bit(x, y) == CASE op = "and" -> x * y
                       [] op = "or"  -> IF x + y > 0 THEN 1 ELSE 0
                       [] OTHER      -> (x + y) % 2
    IN  IF a \in {0, -1} /\ b \in {0, -1}
        THEN 0 - bit(0 - a, 0 - b)
        ELSE 2 * Bitwise(op, a \div 2, b \div 2) + bit(a % 2, b % 2)

\* What the operator of class int computes for a and b.
Arith(op, a, b) ==
    CASE op = "neg"      -> Return(PlainInt(0 - a))
      [] op = "pos"      -> Return(PlainInt(a))
      [] op = "abs"      -> Return(PlainInt(IF a < 0 THEN 0 - a ELSE a))
      [] op = "invert"   -> Return(PlainInt(0 - a - 1))
      [] op = "round"    -> Return(PlainInt(a))
      [] op = "add"      -> Return(PlainInt(a + b))
      [] op = "sub"      -> Return(PlainInt(a - b))
      [] op = "mul"      -> Return(PlainInt(a * b))
      [] op = "floordiv" -> IF b = 0 THEN Raise("ZeroDivisionError")
                            ELSE Return(PlainInt(FloorDiv(a, b)))
      [] op = "mod"      -> IF b = 0 THEN Raise("ZeroDivisionError")
                            ELSE Return(PlainInt(a - b * FloorDiv(a, b)))
      [] op = "truediv"  -> IF b = 0 THEN Raise("ZeroDivisionError") ELSE Return(Float)
      [] op = "pow"      -> IF b >= 0 THEN Return(PlainInt(Power(a, b)))
                            ELSE IF a = 0 THEN Raise("ZeroDivisionError")
                            ELSE Return(Float)
      [] op = "lshift"   -> IF b < 0 THEN Raise("ValueError")
                            ELSE Return(PlainInt(a * Power(2, b)))
      [] op = "rshift"   -> IF b < 0 THEN Raise("ValueError")
                            ELSE Return(PlainInt(a \div Power(2, b)))
      [] OTHER           -> Return(PlainInt(Bitwise(op, a, b)))

\* getattr(int, "__" + name + "__")(self, other)
int_method(name, self, other) ==
    IF name \in UnaryOps \cup BinaryOps
    THEN Arith(name, self.val, other.val)
    ELSE Arith(CHOOSE op \in BinaryOps : name = "r" \o op, other.val, self.val)

\* method(self, *args) made by _make_int64_op_method(int_method), given
\* what int_method returned.
make_int64_op_method(r) ==
    IF r.kind = "return" /\ r.value.type \in {"int", "int64"}
    THEN Return([type |-> "int64", val |-> r.value.val])
    ELSE r

\* type(self).<name>(self, other): int64's own method when it defines one
\* (an in-place method wraps int's binary method), int's otherwise.
call_method(name, self, other) ==
    IF self.type = "int64" /\ name \in Int64Dict
    THEN make_int64_op_method(
             int_method(IF name \in PatchedOps
                        THEN name
                        ELSE CHOOSE op \in InPlaceOps : name = "i" \o op,
                        self, other))
    ELSE int_method(name, self, other)

\* op a
UnaryOp(op, a) == call_method(op, a, a)

\* a op b
BinaryOp(op, a, b) ==
    IF a.type = "int" /\ b.type = "int64" /\ ("r" \o op) \in Int64Dict
    THEN call_method("r" \o op, b, a)
    ELSE call_method(op, a, b)

\* a op= b
InPlaceOp(op, a, b) ==
    IF a.type = "int64" /\ ("i" \o op) \in Int64Dict
    THEN call_method("i" \o op, a, b)
    ELSE BinaryOp(op, a, b)

\* One operation of a chain: the result, when it is an integer, is what the
\* next operation works on.
Operate(form, op, left, right, r) ==
    /\ (r.kind = "return" /\ r.value.type # "float") => r.value.val \in IntValues
    /\ operation' = [form |-> form, op |-> op, left |-> left, right |-> right]
    /\ op_result' = r
    /\ acc' = IF r.kind = "return" /\ r.value.type # "float" THEN r.value ELSE acc
    /\ UNCHANGED <<timingVars, dispatchVars, excVars>>

Unary == \E op \in UnaryOps : Operate("unary", op, acc, acc, UnaryOp(op, acc))

Binary == \E op \in BinaryOps, b \in Operands : Operate("binary", op, acc, b, BinaryOp(op, acc, b))

Reflected ==
    \E op \in BinaryOps, a \in Operands : Operate("reflected", op, a, acc, BinaryOp(op, a, acc))

InPlace ==
    \E op \in BinaryOps, b \in Operands : Operate("inplace", op, acc, b, InPlaceOp(op, acc, b))

IntInit ==
    /\ acc \in Operands
    /\ operation = [form |-> "none"]
    /\ op_result = Return(acc)

IntNext ==
    \/ Unary
    \/ Binary
    \/ Reflected
    \/ InPlace

InitInt == TimingInit /\ DispatchIdle /\ ExcIdle /\ IntInit

SpecInt == InitInt /\ [][IntNext]_vars

-----------------------------------------------------------------------------
(* core.py: unit conversion.  Seconds and reference periods are binary     *)
(* floating-point numbers: a float is m * 2^e with a mantissa m of         *)
(* MantissaBits bits, and every float operation returns the float nearest  *)
(* to the exact value, ties going to the even mantissa.  The model keeps   *)
(* the arithmetic and shortens the mantissa.  A float is written as the    *)
(* whole number of units of 2^-FracBits it holds.                          *)

MantissaBits == 3  \* bits of a float's mantissa (53 in the interpreter)
FracBits == 2      \* the smallest float above 0 is 2^-FracBits
SecondsBits == 2   \* the times converted are at most 2^SecondsBits seconds

Unit == 2^FracBits                               \* the float 1.0

\* The exponents, enough for no operation below to overflow.
Exponents == 0..(2 * FracBits + SecondsBits + 1)

FloatValues == {m * 2^e : m \in 0..(2^MantissaBits - 1), e \in Exponents}

\* The float nearest to num/den units: the mantissa is the quotient cut to
\* MantissaBits bits, rounded up when the rest is more than half a unit in
\* the last place, or exactly half and the mantissa is odd.
RoundToFloat(num, den) ==
    LET e == CHOOSE k \in Exponents :
                 /\ num < den * 2^(MantissaBits + k)
                 /\ k = 0 \/ num >= den * 2^(MantissaBits + k - 1)
        ulp == den * 2^e
        m == num \div ulp
        rest == num % ulp
    IN  IF 2 * rest > ulp \/ (2 * rest = ulp /\ m % 2 = 1)
        THEN (m + 1) * 2^e
        ELSE m * 2^e

\* float // float for vx >= 0 and wx > 0: the remainder is exact, the
\* difference and the quotient are rounded, and the quotient is floored with
\* a correction of one when it lies more than a half above its floor.
float_floor_div(vx, wx) ==
    LET mod == vx % wx
        div == RoundToFloat(RoundToFloat(vx - mod, 1) * Unit, wx)
        floordiv == (div \div Unit) * Unit
    IN  IF 2 * (div - floordiv) > Unit THEN floordiv + Unit ELSE floordiv

\* float * float
float_mul(a, b) == RoundToFloat(a * b, Unit)

\* The float an integer is converted to when it meets a float operand.
int_to_float(n) == RoundToFloat(n * Unit, 1)

\* round(x) of a float x >= 0: the nearest integer, ties to the even one.
round(x) ==
    LET whole == x \div Unit
        rest == x % Unit
    IN  IF 2 * rest > Unit \/ (2 * rest = Unit /\ whole % 2 = 1)
        THEN whole + 1
        ELSE whole

\* A core device: an object with a ref_period attribute.
CoreDevice(p) == <<"core", p>>
ref_period(core) == core[2]

\* int64(v): an integer tagged with its class.  A float result is tagged
\* likewise.
int64(v) == <<"int64", v>>

round64(x) == int64(round(x))

seconds_to_mu(seconds, core) ==
    IF core = None
    THEN Raise("ValueError")
    ELSE Return(round64(float_floor_div(seconds, ref_period(core))))

\* A conversion that assumes a period of one second when no core is given.
mu_to_seconds_default_period(mu, core) ==
    IF core = None
    THEN Return(<<"float", float_mul(int_to_float(mu), Unit)>>)
    ELSE Return(<<"float", float_mul(int_to_float(mu), ref_period(core))>>)

mu_to_seconds(mu, core) ==
    IF core = None
    THEN Raise("ValueError")
    ELSE Return(<<"float", float_mul(int_to_float(mu), ref_period(core))>>)

\* The environment: core devices with a period of at most two seconds.
Devices == {CoreDevice(p) : p \in {f \in FloatValues : 0 < f /\ f <= 2 * Unit}}

\* The conversions call nothing: they compute their result and return.
Conversion(r) ==
    /\ result' = r
    /\ delivered' = <<>>
    /\ UNCHANGED <<tm_stack, tm_underflow>>

\* seconds_to_mu(seconds, core) for a time of at most 2^SecondsBits seconds.
SecondsToMu ==
    \E seconds \in {f \in FloatValues : f <= 2^SecondsBits * Unit},
       core \in Devices \cup {None} :
        Primitive(Conversion(seconds_to_mu(seconds, core)),
                  "seconds_to_mu", <<seconds, core>>)

\* mu_to_seconds(mu, core) for a small cycle count or the one the last
\* statement returned.
MuToSeconds ==
    \E mu \in 0..(2^SecondsBits) \cup
                (IF invoked.prim = "seconds_to_mu" /\ result.kind = "return"
                 THEN {result.value[2]}
                 ELSE {}),
       core \in Devices \cup {None} :
        Primitive(Conversion(mu_to_seconds(mu, core)),
                  "mu_to_seconds", <<mu, core>>)

ConvertNext ==
    \/ SetSyscallManager
    \/ SecondsToMu
    \/ MuToSeconds
    \/ Catch

SpecConvert == InitTiming /\ [][ConvertNext]_vars

-----------------------------------------------------------------------------
(* Properties of the timing, syscall and watchdog protocols.               *)

\* The backend method each statement of the interpreter is expected to call.
ExpectedMethod ==
    [enter_sequential |-> "enter_sequential", enter_parallel |-> "enter_parallel",
     exit_normal |-> "exit", exit_raise |-> "exit",
     delay_mu |-> "take_time_mu", now_mu |-> "get_time_mu",
     at_mu |-> "set_time_mu", delay |-> "take_time"]

TimeStatements == DOMAIN ExpectedMethod

BlockExits == {"exit_normal", "exit_raise"}

FrameKinds == [i \in 1..Len(frames) |-> frames[i].kind]

\* C1, part 1: with one time manager installed throughout, the blocks the
\* time manager holds are exactly the blocks the interpreter has open.
C1_StackMatchesFrames ==
    installs = 1 => tm_stack[time_manager] = FrameKinds

\* C1, part 2: with one time manager installed throughout, the end of a
\* block, by completion or by an exception, makes exactly one exit() call
\* on the time manager, which pops exactly the entry the block pushed.
C1_ExitStep ==
    (installs = 1 /\ invoked'.prim \in BlockExits) =>
        /\ delivered' = <<Call("time", time_manager, "exit", <<>>)>>
        /\ tm_stack'[time_manager] = Front(tm_stack[time_manager])
        /\ Len(tm_stack'[time_manager]) = Len(frames')
        /\ ~tm_underflow'[time_manager]

\* C1: with one time manager installed throughout, every block whose entry
\* succeeded causes exactly one exit() call on the time manager, when its
\* body completes and when it raises, so the depth of the block stack after
\* the outermost block ends is the depth before it started.
C1_ExitExactlyOnce == [](C1_StackMatchesFrames) /\ [][C1_ExitStep]_vars

\* C1 witness: an exception has left an inner parallel block while the outer
\* block is still open, under the only time manager ever installed.
C1_Witness ==
    /\ installs = 1
    /\ invoked.prim = "exit_raise"
    /\ exc = "BodyError"
    /\ Len(frames) = 1
    /\ delivered = <<Call("time", time_manager, "exit", <<>>)>>

\* C3, one step: a timing primitive, a syscall or a watchdog call made
\* after a backend was handed to the setter reaches that backend only,
\* with the arguments of the call, and syscall, now_mu and watchdog return
\* what the backend answered; no other backend's state changes.
C3_Step ==
    /\ (invoked'.prim \in TimeStatements /\ requested.time # Dummy) =>
          /\ delivered' = <<Call("time", requested.time,
                                ExpectedMethod[invoked'.prim], invoked'.args)>>
          /\ \A b \in Backends \ {requested.time} :
                tm_stack'[b] = tm_stack[b] /\ tm_underflow'[b] = tm_underflow[b]
          /\ invoked'.prim = "now_mu" =>
                result' = BackendReply(requested.time, "get_time_mu", <<>>)
    /\ (invoked'.prim = "syscall" /\ requested.syscall # Dummy) =>
          /\ delivered' = <<Call("syscall", requested.syscall, "do", invoked'.args)>>
          /\ result' = BackendReply(requested.syscall, "do", invoked'.args)
    /\ (invoked'.prim = "watchdog" /\ requested.watchdog # Dummy) =>
          /\ delivered' = <<Call("watchdog", requested.watchdog, "__call__",
                                invoked'.args)>>
          /\ result' = BackendReply(requested.watchdog, "__call__", invoked'.args)

\* C3: after set_time_manager(b), set_syscall_manager(b) or
\* set_watchdog_factory(f), every later call is delivered only to the
\* backend installed last, for any sequence of installs and calls.
C3_InstalledBackendReplaces == [][C3_Step]_vars

\* C3 witness: a second time manager was installed after the first one had
\* received a block entry, and a delay_mu reached the second one.
C3_Witness ==
    /\ installs = 2
    /\ requested.time = "B"
    /\ tm_stack["A"] # <<>>
    /\ invoked.prim = "delay_mu"
    /\ delivered = <<Call("time", "B", "take_time_mu", invoked.args)>>

\* C4, one step: with no backend installed a timing primitive or a syscall
\* raises NotImplementedError (the error the default backends raise for
\* "no backend"), opens no block and leaves every backend untouched.
C4_Step ==
    /\ (invoked'.prim \in TimeStatements /\ requested.time = Dummy) =>
          /\ result' = Raise("NotImplementedError")
          /\ exc' = "NotImplementedError"
          /\ frames' = frames
          /\ tm_stack' = tm_stack
    /\ (invoked'.prim = "syscall" /\ requested.syscall = Dummy) =>
          /\ result' = Raise("NotImplementedError")
          /\ exc' = "NotImplementedError"

\* C4: when no timing or syscall backend has been installed, syscall and
\* every timing primitive fail with the "no backend" error; none returns
\* normally or does nothing silently.
C4_NoBackendRaises == [][C4_Step]_vars

\* C4 witness: entering a sequential block with no time manager installed
\* has raised and opened no block.
C4_Witness ==
    /\ requested.time = Dummy
    /\ invoked.prim = "enter_sequential"
    /\ exc = "NotImplementedError"
    /\ frames = <<>>

\* C15, at every state: no time manager has received an exit() with no
\* block entered, and once the program has left all its blocks no time
\* manager still holds one.
C15_NoUnmatchedNoLeak ==
    \A b \in Backends :
        /\ ~tm_underflow[b]
        /\ frames = <<>> => tm_stack[b] = <<>>

\* C15, one step: the end of a block delivers its exit() to the time
\* manager that received the block's enter.
C15_ExitStep ==
    invoked'.prim \in BlockExits =>
        delivered' = <<Call("time", frames[Len(frames)].mgr, "exit", <<>>)>>

\* C15: for any interleaving of block entries, block exits and
\* set_time_manager calls, a replacement made while a block is open
\* included, every block's exit() goes to the time manager that received
\* its enter: none receives an exit() for a block it did not enter and none
\* is left with an entered block that is never exited.
C15_ExitReachesEnterer == [](C15_NoUnmatchedNoLeak) /\ [][C15_ExitStep]_vars

\* The guard the default factory makes.
DefaultGuard == <<"_DummyWatchdog">>

\* Nothing of the backends changes in a step.
BackendsUntouched ==
    /\ delivered' = <<>>
    /\ tm_stack' = tm_stack
    /\ tm_underflow' = tm_underflow
    /\ <<time_manager, syscall_manager, watchdog_factory>>' =
          <<time_manager, syscall_manager, watchdog_factory>>

\* C14, one step.  With the default factory, watchdog(timeout) returns a
\* guard and raises nothing.  Entering the default guard returns, raises
\* nothing and touches no backend.  Leaving it, after the body completed or
\* with an exception on its way out, returns, touches no backend and leaves
\* the exception as it was: none stays none, a fault stays the same fault.
C14_Step ==
    /\ (invoked'.prim = "watchdog" /\ watchdog_factory = Dummy) =>
          /\ result' = Return(DefaultGuard)
          /\ exc' = NoExc
          /\ tm_stack' = tm_stack
          /\ frames' = frames
    /\ (invoked'.prim = "enter_watchdog" /\ result.value = DefaultGuard) =>
          /\ result' = Return(None)
          /\ exc' = NoExc
          /\ BackendsUntouched
          /\ Front(frames') = frames
    /\ (/\ invoked'.prim \in BlockExits
        /\ frames[Len(frames)] = [kind |-> "watchdog", mgr |-> DefaultGuard[1]]) =>
          /\ result' = Return(None)
          /\ exc' = exc
          /\ BackendsUntouched
          /\ frames' = Front(frames)

\* C14: with the default watchdog factory, watchdog(timeout) returns for
\* every timeout a guard whose enter and exit never raise, enforce nothing
\* and touch no backend state, on the normal and on the faulting exit path;
\* a fault raised in the guarded scope reaches the caller unchanged.
C14_DefaultGuardInert == [][C14_Step]_vars

\* C14 witness: a fault raised inside a default guard, itself inside a
\* block of time manager A, has left the guard: the fault is still on its
\* way and A still holds its block.
C14_Witness ==
    /\ invoked.prim = "exit_raise"
    /\ delivered = <<>>
    /\ exc = "BodyError"
    /\ watchdog_factory = Dummy
    /\ time_manager = "A"
    /\ Len(frames) = 1
    /\ tm_stack["A"] = <<frames[1].kind>>

-----------------------------------------------------------------------------
(* Properties of the dispatcher.                                           *)

\* The binding name a use of @kernel names: the string given, "core" if bare.
BindingOf(how) == IF how.type = "str" THEN how.value ELSE "core"

HasExecutor(name) == name \in DOMAIN attrs /\ attrs[name] \in Executors

\* C2, one step: a call of a kernel method on an object whose binding
\* attribute holds an executor makes exactly one run call, on the executor
\* the attribute holds at the time of the call, with (function,
\* (self,)+args, kwargs); it runs nothing in the caller's context and
\* returns what run returned.
C2_Step ==
    invoked'.prim = "call_kernel" =>
        LET name == BindingOf(invoked'.args[1])
            sent == <<invoked'.args[2], <<Self>> \o invoked'.args[3], invoked'.args[4]>>
        IN  HasExecutor(name) =>
              /\ delivered' = <<Call("executor", attrs[name], "run", sent)>>
              /\ executed' = <<>>
              /\ result' = BackendReply(attrs[name], "run", sent)

\* C2: every call of a kernel method looks the executor up on the object
\* at call time, calls its run once with (function, (self,)+args, kwargs),
\* does not run the function itself and returns run's result; rebinding the
\* attribute changes the executor the next call uses.
C2_DispatchThroughExecutor == [][C2_Step]_vars

\* C2 witness: a bare @kernel method was called with an argument after the
\* core attribute had been rebound from E1 to E2, and run reached E2.
C2_Witness ==
    /\ invoked.prim = "call_kernel"
    /\ invoked.args[1] = FunctionArg("leaf")
    /\ invoked.args[3] = <<"x">>
    /\ "core" \in DOMAIN attrs
    /\ attrs["core"] = "E2"
    /\ delivered = <<Call("executor", "E2", "run", <<"leaf", <<Self, "x">>, invoked.args[4]>>)>>

\* C5, one step: a call of a kernel method on an object without the binding
\* attribute, or whose attribute has no run, raises AttributeError (the
\* error for a missing executor), runs nothing and calls no executor.
C5_Step ==
    (invoked'.prim = "call_kernel" /\ ~HasExecutor(BindingOf(invoked'.args[1]))) =>
        /\ result' = Raise("AttributeError")
        /\ executed' = <<>>
        /\ delivered' = <<>>

\* C5: a kernel call on an object that has no attribute with the binding
\* name, or whose attribute has no run operation, fails with the missing
\* executor error and the underlying function is not executed.
C5_MissingExecutorRaises == [][C5_Step]_vars

\* C5 witness: a @kernel("comm") method was called while self.comm held a
\* value without a run method.
C5_Witness ==
    /\ invoked.prim = "call_kernel"
    /\ invoked.args[1] = StrArg("comm")
    /\ "comm" \in DOMAIN attrs
    /\ attrs["comm"] = NoRunValue
    /\ result = Raise("AttributeError")

\* C6, the part about calls: a portable function runs in the caller's
\* context, no executor is asked to run it, and a kernel method called from
\* its body goes through the executor of that kernel's own binding.
C6_PortableStep ==
    invoked'.prim = "call_portable" =>
        LET f == invoked'.args[2]
            sent == <<"leaf", <<Self>> \o invoked'.args[3], invoked'.args[4]>>
        IN  /\ executed' = <<f>>
            /\ \A i \in 1..Len(delivered') : delivered'[i].args[1] # f
            /\ invoked'.args[5].core_name = ""
            /\ f = "leaf" => delivered' = <<>>
            /\ (f = "nested" /\ HasExecutor(NestedBinding)) =>
                  /\ delivered' = <<Call("executor", attrs[NestedBinding], "run", sent)>>
                  /\ result' = BackendReply(attrs[NestedBinding], "run", sent)

\* C6, the part about tags: a kernel method is tagged with a non-empty
\* binding name.
C6_KernelTagStep ==
    invoked'.prim = "call_kernel" => invoked'.args[5].core_name # ""

\* C6: a portable function runs directly and never through an executor, it
\* is tagged with an empty binding name while a kernel method is tagged with
\* a non-empty one, and a kernel method called from inside it is dispatched
\* through its own executor.
C6_PortableDirectKernelTagged == [][C6_PortableStep /\ C6_KernelTagStep]_vars

\* What does hold of portable functions: the part of C6 about calls.
PortableRunsDirectly == [][C6_PortableStep]_vars

-----------------------------------------------------------------------------
(* Properties of ARTIQException.                                           *)

RECURSIVE Preorder(_)
RECURSIVE PreorderOfAll(_)

\* The classes below and including cls, parents before children, the
\* children of a class in the order of their definition.
Preorder(cls) == <<cls>> \o PreorderOfAll(subclasses(cls))

PreorderOfAll(subs) ==
    IF subs = <<>> THEN <<>> ELSE Preorder(Head(subs)) \o PreorderOfAll(Tail(subs))

NamedBelow(cls, name) == SelectSeq(Preorder(cls), LAMBDA i : classes[i].name = name)

\* C7, one step: an exception constructed on a class has the type that
\* comes first, in depth-first order from that class, among the classes
\* named like the record, and the class itself if there is none; from the
\* root the search meets every class of the hierarchy.
C7_Step ==
    (classes' = classes /\ via' # NoneCls) =>
        LET hits == NamedBelow(via', record'.name) IN
        /\ hits # <<>> => exn'.type = Head(hits) /\ classes[exn'.type].name = record'.name
        /\ hits = <<>> => exn'.type = via'
        /\ via' = Root =>
              ((\E i \in 1..Len(classes) : classes[i].name = record'.name) <=> hits # <<>>)

\* C7: constructing a device exception resolves its type by a depth-first
\* search of the hierarchy from the root: the first type with the record's
\* name if any type has it, and the root type if none has.
C7_ResolvesDepthFirst == [][C7_Step]_vars

\* C7 witness: RTIOUnderflow, defined below RTIOSequenceError, was found two
\* levels below the root.
C7_Witness ==
    /\ via = Root
    /\ record # NoRecord
    /\ record.name = "RTIOUnderflow"
    /\ Len(classes) = 3
    /\ classes[2] = [name |-> "RTIOSequenceError", parent |-> Root]
    /\ classes[3] = [name |-> "RTIOUnderflow", parent |-> 2]
    /\ exn.type = 3

\* The message with each field replaced by the decimal text of its parameter.
Substituted(message, params) ==
    [i \in 1..Len(message) |->
        IF message[i] = "{0}" THEN IntToStr(params[1])
        ELSE IF message[i] = "{1}" THEN IntToStr(params[2])
        ELSE message[i]]

ExpectedPrefix(self) ==
    IF classes[self.type].name # self.name THEN <<"(", self.name, ") ">> ELSE <<>>

\* C8: the first line of a rendered exception is the message with the
\* parameters substituted, with "(name) " in front exactly when the name of
\* the resolved type is not the record's name; the other lines do not
\* depend on the type.
C8_FirstLinePrefix ==
    rendered.kind = "return" =>
        /\ rendered.value[1] = ExpectedPrefix(exn) \o Substituted(exn.message, exn.params)
        /\ Tail(rendered.value) =
              <<TracebackHeader, FrameLine(record), rendered.value[4], rendered.value[5]>>
        /\ \A t \in 1..Len(classes) :
              LET other == ARTIQException__str__([exn EXCEPT !.type = t]) IN
              other.kind = "return" /\ Tail(other.value) = Tail(rendered.value)

\* C8 witness: an exception with an unregistered name, resolved to the root
\* type, was rendered with the prefix.
C8_Witness ==
    /\ rendered.kind = "return"
    /\ exn.type = Root
    /\ exn.name = "UnknownFault"
    /\ exn.message = <<"channel ", "{0}", " slack ", "{1}">>
    /\ rendered.value[1] = <<"(", "UnknownFault", ") ", "channel ", "7", " slack ", "-12">>

\* C9: rendering an exception whose source file or line is unavailable
\* completes and shows <unknown> in place of the source line.
C9_UnknownSourceRenders ==
    (rendered # Pending
       /\ linecache_getline(exn.filename, exn.line) = <<>>
       /\ format(exn.message, exn.params).kind = "return") =>
        /\ rendered.kind = "return"
        /\ rendered.value[4] = <<"    ", "<unknown>">>

\* The number of whitespace characters a source line starts with, counted
\* on the line as the file yields it.
LeadingCount(line) ==
    CHOOSE n \in 0..Len(line) :
        /\ \A i \in 1..n : line[i] \in Whitespace
        /\ n = Len(line) \/ line[n + 1] \notin Whitespace

\* The frame and caret lines of a rendering of exn that has returned: the
\* frame shows column+1, and the caret stands after as many spaces as the
\* column exceeds the leading whitespace, under the indentation of the
\* source line.
FrameAndCaret(line) ==
    /\ rendered.kind = "return"
    /\ rendered.value[3] =
          <<"  File \"", exn.filename, "\", line ", IntToStr(exn.line),
            ", column ", IntToStr(exn.column + 1), ", in ", exn.function>>
    /\ rendered.value[5] =
          <<"    ">> \o Spaces(exn.column - LeadingCount(line)) \o <<"^">>

\* C13: for every source line, one with no leading whitespace included,
\* the rendering shows column+1 in the frame line and a caret line of
\* (column minus the line's leading whitespace) spaces followed by ^.
C13_CaretLine ==
    LET line == linecache_getline(exn.filename, exn.line) IN
    (rendered # Pending /\ line # <<>>
       /\ format(exn.message, exn.params).kind = "return") =>
        FrameAndCaret(line)

\* What does hold of the caret line: C13 for the source lines that start
\* with whitespace.
CaretLineWhenIndented ==
    LET line == linecache_getline(exn.filename, exn.line) IN
    (rendered # Pending /\ line # <<>> /\ LeadingCount(line) > 0
       /\ format(exn.message, exn.params).kind = "return") =>
        FrameAndCaret(line)

-----------------------------------------------------------------------------
(* Properties of int64.                                                    *)

IsInteger(r) == r.kind = "return" /\ r.value.type # "float"

\* C10, the result of one operation: an operation with an int64 operand
\* whose result is an integer yields an int64.
C10_ResultTagged ==
    (operation.form # "none"
       /\ IsInteger(op_result)
       /\ (operation.left.type = "int64" \/ operation.right.type = "int64")) =>
        op_result.value.type = "int64"

\* C10: every unary, binary, reflected and in-place arithmetic or bitwise
\* operation with at least one int64 operand and an integer result yields
\* an int64, so a chain of operations that holds an int64 never loses the
\* tag.
C10_WidthTagPropagates ==
    [](C10_ResultTagged) /\ [][acc.type = "int64" => acc'.type = "int64"]_vars

\* C10 witness: a plain integer on the left was added to an int64 on the
\* right and the sum is an int64.
C10_Witness ==
    /\ operation.form = "reflected"
    /\ operation.op = "add"
    /\ operation.left = PlainInt(2)
    /\ operation.right = [type |-> "int64", val |-> 1]
    /\ op_result = Return([type |-> "int64", val |-> 3])

-----------------------------------------------------------------------------
(* Properties of the unit conversion.                                      *)

Conversions == {"seconds_to_mu", "mu_to_seconds"}

\* C11, one step: a conversion called with None for the core raises
\* ValueError (the error for a missing device reference), returns no value
\* and calls no backend.
C11_Step ==
    (invoked'.prim \in Conversions /\ invoked'.args[2] = None) =>
        /\ result' = Raise("ValueError")
        /\ exc' = "ValueError"
        /\ delivered' = <<>>
        /\ tm_stack' = tm_stack

\* C11: seconds_to_mu(s, None) and mu_to_seconds(mu, None) fail with the
\* configuration error for every s and mu; no default reference period is
\* used and no backend is called.
C11_NoCoreRaises == [][C11_Step]_vars

\* C11 witness: mu_to_seconds(3, None) has raised with a syscall backend
\* installed.
C11_Witness ==
    /\ invoked = Statement("mu_to_seconds", <<3, None>>)
    /\ syscall_manager \in Backends
    /\ result = Raise("ValueError")
    /\ exc = "ValueError"

\* C12, the forward part: with a core of period p > 0, seconds_to_mu(s)
\* returns the int64 floor(s/p).
C12_FloorStep ==
    (invoked'.prim = "seconds_to_mu" /\ invoked'.args[2] # None) =>
        result' = Return(int64(invoked'.args[1] \div ref_period(invoked'.args[2])))

\* C12, the round trip: mu_to_seconds applied to what seconds_to_mu(s)
\* returned, with the same core, differs from s by less than one period.
C12_RoundTripStep ==
    (/\ invoked.prim = "seconds_to_mu"
     /\ result.kind = "return"
     /\ invoked'.prim = "mu_to_seconds"
     /\ invoked'.args = <<result.value[2], invoked.args[2]>>) =>
        LET s == invoked.args[1]
            p == ref_period(invoked.args[2])
            back == result'.value[2]
        IN  /\ result'.kind = "return"
            /\ result'.value[1] = "float"
            /\ back - s < p
            /\ s - back < p

\* C12: for every core with period p > 0 and every s >= 0, seconds_to_mu(s)
\* is the floor of s/p, and mu_to_seconds(seconds_to_mu(s)) differs from s
\* by less than one cycle p.
C12_FloorAndRoundTrip == [][C12_FloorStep /\ C12_RoundTripStep]_vars

\* What does hold of seconds_to_mu: the rounding after the floor division
\* never changes the value, the result being the floor division's own value
\* as an int64.
RoundingKeepsFloorDivision ==
    [][(invoked'.prim = "seconds_to_mu" /\ invoked'.args[2] # None) =>
          /\ result'.kind = "return"
          /\ result'.value[1] = "int64"
          /\ result'.value[2] * Unit =
                float_floor_div(invoked'.args[1], ref_period(invoked'.args[2]))]_vars

====
